---- MODULE Spec2Model ----
(***************************************************************************)
(* A model of fastai/train.py: the training extensions bound onto Learner  *)
(* (fit_one_cycle, lr_find, to_fp16, to_fp32, mixup, clip_grad), the       *)
(* GradientClipping callback inside the host training loop, and            *)
(* ClassificationInterpretation (confusion_matrix, most_confused).         *)
(*                                                                         *)
(* Python values are modelled as follows.  A list is a sequence.  A tensor *)
(* or array is a function over 0..n-1, so that indices are the source's.   *)
(* An object is a record; an object whose identity matters carries an id.  *)
(* Floats are integers in a fixed unit (alpha 4 stands for 0.4).           *)
(***************************************************************************)
EXTENDS Integers, Sequences, FiniteSets, TLC

VARIABLES
    \* ---- the Learner
    callbacks,      \* learn.callbacks: list of callback objects
    callback_fns,   \* learn.callback_fns: list of callback factories (partials)
    loss_func,      \* learn.loss_func: <<"MixUpLoss", ..., "crit">>, outermost wrapper first
    model_dtype,    \* precision of learn.model: "float" or "half"
    mp_cb,          \* learn.mp_cb: id of the last MixedPrecision made, 0 when unset
    dl_tfms,        \* learn.data: for each of train_dl, valid_dl, test_dl its tfms list
    train_len,      \* len(learn.data.train_dl): batches in one epoch
    n_calls,        \* number of Learner methods called so far (also the object id source)
    last_op,        \* the last method called on the learner, with its arguments
    ret,            \* what that method returned
    fit_calls,      \* the learn.fit invocations made by the last method, in order
    \* ---- GradientClipping inside the training loop
    pc,             \* position of the training loop
    clip,           \* GradientClipping.clip
    grad_norm,      \* total norm of the gradients of model.parameters()
    raw_norm,       \* the norm loss.backward() left, before any callback ran
    applied,        \* the gradient norm the optimizer step consumed
    events,         \* what ran in the current batch, in order
    batch,          \* index of the current batch
    \* ---- ClassificationInterpretation
    ipc,            \* "new", "built" (after __init__), "cm", "mc" (after a method returned)
    c,              \* data.c, the number of classes
    probs,          \* probs[k][j], k in 0..n-1, j in 0..NCols-1
    y_true,         \* y_true[k]
    pred_class,     \* probs.argmax(dim=1)
    cm_out,         \* what confusion_matrix() returned
    min_val,        \* the argument of the last most_confused call
    mc_out          \* what most_confused(min_val) returned

learner_vars == <<callbacks, callback_fns, loss_func, model_dtype, mp_cb, dl_tfms, train_len,
                  n_calls, last_op, ret, fit_calls>>
train_vars == <<pc, clip, grad_norm, raw_norm, applied, events, batch>>
interp_vars == <<ipc, c, probs, y_true, pred_class, cm_out, min_val, mc_out>>
vars == <<learner_vars, train_vars, interp_vars>>

-----------------------------------------------------------------------------
\* Bounds of the model.
MaxCalls == 4       \* Learner methods called in one run
MaxBatches == 2     \* batches the training loop runs
MaxNorm == 3        \* largest gradient norm loss.backward() leaves
MaxClip == 2        \* largest clip threshold
MaxN == 2           \* samples given to ClassificationInterpretation
MaxC == 2           \* classes (and columns of probs)
MaxNumIt == 7       \* largest num_it given to lr_find
MaxTrainLen == 3    \* largest len(learn.data.train_dl)
MaxEpochs == 2      \* largest cyc_len given to fit_one_cycle

None == [tag |-> "None", v |-> <<>>]

Range(f) == {f[x] : x \in DOMAIN f}

\* The sequences over S of length at most n.
SeqUpTo(S, n) == UNION {[1..k -> S] : k \in 0..n}

\* The tensors (functions over 0..n-1) over S.
Tensor(S, n) == [0..(n - 1) -> S]

-----------------------------------------------------------------------------
\* The Learner: to_fp16, to_fp32, mixup, clip_grad.

\* A MixedPrecision callback object, as to_fp16 constructs it.
MixedPrecision(id, loss_scale, flat_master) ==
    [kind |-> "MixedPrecision", id |-> id,
     kw |-> [loss_scale |-> loss_scale, flat_master |-> flat_master]]

\* isinstance(cb, MixedPrecision)
IsMixedPrecision(cb) == cb.kind = "MixedPrecision"

\* list.remove(x): drops the first element equal to x.
list_remove(s, x) ==
    LET i == CHOOSE i \in 1..Len(s) : s[i] = x /\ \A j \in 1..(i - 1) : s[j] # x
    IN  SubSeq(s, 1, i - 1) \o SubSeq(s, i + 1, Len(s))

\* DataLoader.remove_tfm(tfm): removes tfm from the loader's tfms when it is there.
remove_tfm(dl, tfm) ==
    IF \E i \in 1..Len(dl.v) : dl.v[i] = tfm
    THEN [dl EXCEPT !.v = list_remove(dl.v, tfm)]
    ELSE dl

\* hasattr(learn.data, name) and the loader is not None
HasLoader(dl) == dl.tag = "dl"

\* MixUpLoss(crit): a loss wrapping the previous one.
MixUpLoss(crit) == <<"MixUpLoss">> \o crit

\* partial(MixUpCallback, alpha=alpha, stack_x=stack_x, stack_y=stack_y)
MixUpPartial(alpha, stack_x, stack_y) ==
    [cls |-> "MixUpCallback",
     kw |-> [alpha |-> alpha, stack_x |-> stack_x, stack_y |-> stack_y]]

\* partial(GradientClipping, clip=clip)
GradientClippingPartial(cl) == [cls |-> "GradientClipping", kw |-> [clip |-> cl]]

\* to_fp16(learn, loss_scale, flat_master)
to_fp16(loss_scale, flat_master) ==
    /\ n_calls < MaxCalls
    /\ n_calls' = n_calls + 1
    /\ model_dtype' = "half"
    /\ mp_cb' = n_calls + 1
    /\ callbacks' = Append(callbacks, MixedPrecision(n_calls + 1, loss_scale, flat_master))
    /\ ret' = "learn"
    /\ last_op' = [name |-> "to_fp16",
                   args |-> [loss_scale |-> loss_scale, flat_master |-> flat_master]]
    /\ fit_calls' = <<>>
    /\ UNCHANGED <<callback_fns, loss_func, dl_tfms, train_len>>
    /\ UNCHANGED <<train_vars, interp_vars>>

\* The loop of to_fp32: `for cb in learn.callbacks: if isinstance(...): remove(cb)`.
\* A Python list iterator holds an index into the live list; i is that index
\* (1-based here) and cbs the list as the removals so far have left it.
RECURSIVE remove_mixed_precision(_, _)
remove_mixed_precision(cbs, i) ==
    IF i > Len(cbs) THEN cbs
    ELSE IF IsMixedPrecision(cbs[i])
         THEN remove_mixed_precision(list_remove(cbs, cbs[i]), i + 1)
         ELSE remove_mixed_precision(cbs, i + 1)

\* to_fp32(learn)
to_fp32 ==
    /\ n_calls < MaxCalls
    /\ n_calls' = n_calls + 1
    /\ dl_tfms' = [train |-> remove_tfm(dl_tfms.train, "batch_to_half"),
                   valid |-> IF HasLoader(dl_tfms.valid)
                             THEN remove_tfm(dl_tfms.valid, "batch_to_half")
                             ELSE dl_tfms.valid,
                   test  |-> IF HasLoader(dl_tfms.test)
                             THEN remove_tfm(dl_tfms.test, "batch_to_half")
                             ELSE dl_tfms.test]
    /\ callbacks' = remove_mixed_precision(callbacks, 1)
    /\ model_dtype' = "float"
    /\ ret' = "learn"
    /\ last_op' = [name |-> "to_fp32", args |-> [none |-> TRUE]]
    /\ fit_calls' = <<>>
    /\ UNCHANGED <<callback_fns, loss_func, mp_cb, train_len>>
    /\ UNCHANGED <<train_vars, interp_vars>>

\* Line 55 with the test of stack_y lost: the loss is wrapped on every call.
mixup_loss_func_always_wraps(stack_y, crit) == MixUpLoss(crit)

\* Line 55: `if stack_y: learn.loss_func = MixUpLoss(learn.loss_func)`.
mixup_loss_func(stack_y, crit) == IF stack_y THEN MixUpLoss(crit) ELSE crit

\* mixup(learn, alpha, stack_x, stack_y)
mixup(alpha, stack_x, stack_y) ==
    /\ n_calls < MaxCalls
    /\ n_calls' = n_calls + 1
    /\ loss_func' = mixup_loss_func(stack_y, loss_func)
    /\ callback_fns' = Append(callback_fns, MixUpPartial(alpha, stack_x, stack_y))
    /\ ret' = "learn"
    /\ last_op' = [name |-> "mixup",
                   args |-> [alpha |-> alpha, stack_x |-> stack_x, stack_y |-> stack_y]]
    /\ fit_calls' = <<>>
    /\ UNCHANGED <<callbacks, model_dtype, mp_cb, dl_tfms, train_len>>
    /\ UNCHANGED <<train_vars, interp_vars>>

\* clip_grad(learn, clip)
clip_grad(cl) ==
    /\ n_calls < MaxCalls
    /\ n_calls' = n_calls + 1
    /\ callback_fns' = Append(callback_fns, GradientClippingPartial(cl))
    /\ ret' = "learn"
    /\ last_op' = [name |-> "clip_grad", args |-> [clip |-> cl]]
    /\ fit_calls' = <<>>
    /\ UNCHANGED <<callbacks, loss_func, model_dtype, mp_cb, dl_tfms, train_len>>
    /\ UNCHANGED <<train_vars, interp_vars>>

\* The inputs the methods are called with.
LossScales == {512}
Alphas == {4}
ClipValues == 0..MaxClip

\* A DataLoader with the given tfms, a loader attribute set to None, and no attribute.
Loader(tfms) == [tag |-> "dl", v |-> tfms]
NoLoader == [tag |-> "None", v |-> <<>>]

\* The data a Learner is constructed on: train_dl always exists; valid_dl and
\* test_dl may be None.  batch_to_half may or may not be among the tfms.
DataBunches ==
    {[train |-> Loader(t), valid |-> v, test |-> NoLoader] :
        t \in {<<>>, <<"batch_to_half">>},
        v \in {NoLoader, Loader(<<"batch_to_half">>)}}
    \cup {[train |-> Loader(<<"batch_to_half">>),
           valid |-> Loader(<<"batch_to_half">>),
           test  |-> Loader(<<"batch_to_half">>)]}

\* A callback that is no MixedPrecision (id 0: constructed before any call here).
OtherCallback == [kind |-> "Callback", id |-> 0, kw |-> [none |-> TRUE]]

LearnerInit ==
    /\ callbacks \in {<<>>, <<OtherCallback>>}
    /\ callback_fns = <<>>
    /\ loss_func = <<"crit">>
    /\ model_dtype = "float"
    /\ mp_cb = 0
    /\ dl_tfms \in DataBunches
    /\ train_len = 1
    /\ n_calls = 0
    /\ last_op = [name |-> "Learner", args |-> [none |-> TRUE]]
    /\ ret = "None"
    /\ fit_calls = <<>>

-----------------------------------------------------------------------------
\* fit_one_cycle and lr_find.

Some(x) == [tag |-> "some", v |-> <<x>>]

\* Learning rates: a float, a list of floats, or a slice; v holds the numbers.
Lr(tag, v) == [tag |-> tag, v |-> v]
LrInputs == {Lr("float", <<3>>), Lr("list", <<1, 3>>), Lr("slice", <<1, 3>>)}

\* Learner.lr_range(lr): a slice becomes an array with one rate per layer
\* group; anything else is returned as it is.
lr_range(lr) == IF lr.tag = "slice" THEN Lr("array", lr.v) ELSE lr

\* is_listy(x): x is a tuple or a list.
is_listy(lr) == lr.tag = "list"

\* `np.array(lr) if is_listy(lr) else lr`
as_array(lr) == IF is_listy(lr) THEN Lr("array", lr.v) ELSE lr

\* listify(p): [] for None, [p] for a single object, a list of p's elements for a list.
listify(p) == IF p.tag = "None" THEN <<>> ELSE p.v

\* OneCycleScheduler(learn, lr_max, moms=, div_factor=, pct_start=)
OneCycleScheduler(id, lr_max, moms, div_factor, pct_start) ==
    [kind |-> "OneCycleScheduler", id |-> id,
     kw |-> [lr_max |-> lr_max, moms |-> moms, div_factor |-> div_factor,
             pct_start |-> pct_start]]

\* LRFinder(learn, start_lr, end_lr, num_it, stop_div)
LRFinder(id, start_lr, end_lr, num_it, stop_div) ==
    [kind |-> "LRFinder", id |-> id,
     kw |-> [start_lr |-> start_lr, end_lr |-> end_lr, num_it |-> num_it,
             stop_div |-> stop_div]]

\* One learn.fit(epochs, lr, wd=wd, callbacks=callbacks) invocation.
FitCall(epochs, lr, wd, cbs) ==
    [epochs |-> epochs, lr |-> lr, wd |-> wd, callbacks |-> cbs]

\* Lines 19-21 with the scheduler put in front of the caller's callbacks.
one_cycle_callbacks_prepended(cbs, sched) == <<sched>> \o listify(cbs)

\* Lines 19-21: `callbacks = listify(callbacks); callbacks.append(OneCycleScheduler(...))`.
one_cycle_callbacks(cbs, sched) == Append(listify(cbs), sched)

\* fit_one_cycle(learn, cyc_len, max_lr, moms, div_factor, pct_start, wd, callbacks)
fit_one_cycle(cyc_len, max_lr, moms, div_factor, pct_start, wd, cbs) ==
    /\ n_calls < MaxCalls
    /\ n_calls' = n_calls + 1
    /\ LET lr == lr_range(max_lr)
           sched == OneCycleScheduler(n_calls + 1, lr, moms, div_factor, pct_start)
       IN  fit_calls' = <<FitCall(cyc_len, lr, wd, one_cycle_callbacks(cbs, sched))>>
    /\ ret' = "None"
    /\ last_op' = [name |-> "fit_one_cycle",
                   args |-> [cyc_len |-> cyc_len, max_lr |-> max_lr, moms |-> moms,
                             div_factor |-> div_factor, pct_start |-> pct_start,
                             wd |-> wd, callbacks |-> cbs]]
    /\ UNCHANGED <<callbacks, callback_fns, loss_func, model_dtype, mp_cb, dl_tfms,
                   train_len>>
    /\ UNCHANGED <<train_vars, interp_vars>>

\* Line 31 with the quotient truncated instead of rounded up.
epochs_for_floor(num_it, n) == num_it \div n

\* Line 31: `int(np.ceil(num_it/len(learn.data.train_dl)))`, for n >= 1.
epochs_for(num_it, n) ==
    IF num_it % n = 0 THEN num_it \div n ELSE (num_it \div n) + 1

\* lr_find(learn, start_lr, end_lr, num_it, stop_div)
lr_find(start_lr, end_lr, num_it, stop_div) ==
    /\ n_calls < MaxCalls
    /\ n_calls' = n_calls + 1
    /\ LET s == as_array(lr_range(start_lr))
           e == as_array(lr_range(end_lr))
           cb == LRFinder(n_calls + 1, s, e, num_it, stop_div)
           a == epochs_for(num_it, train_len)
       IN  fit_calls' = <<FitCall(a, s, None, <<cb>>)>>
    /\ ret' = "None"
    /\ last_op' = [name |-> "lr_find",
                   args |-> [start_lr |-> start_lr, end_lr |-> end_lr,
                             num_it |-> num_it, stop_div |-> stop_div]]
    /\ UNCHANGED <<callbacks, callback_fns, loss_func, model_dtype, mp_cb, dl_tfms,
                   train_len>>
    /\ UNCHANGED <<train_vars, interp_vars>>

\* Callbacks a caller may hand to fit_one_cycle: None, one callback that is
\* not in a list, or a list (which may already hold a OneCycleScheduler).
UserCallbacks ==
    {[kind |-> "ShowGraph", id |-> 0, kw |-> [none |-> TRUE]],
     [kind |-> "OneCycleScheduler", id |-> 0, kw |-> [none |-> TRUE]]}
CallbackArgs ==
    {None}
    \cup {[tag |-> "single", v |-> <<cb>>] : cb \in UserCallbacks}
    \cup {[tag |-> "list", v |-> l] : l \in SeqUpTo(UserCallbacks, 2)}

Moms == <<95, 85>>
DivFactor == 25
PctStart == 3
Wds == {None, Some(1)}

FitInit ==
    /\ callbacks = <<>>
    /\ callback_fns = <<>>
    /\ loss_func = <<"crit">>
    /\ model_dtype = "float"
    /\ mp_cb = 0
    /\ dl_tfms = [train |-> Loader(<<>>), valid |-> Loader(<<>>), test |-> NoLoader]
    /\ train_len \in 1..MaxTrainLen
    /\ n_calls = 0
    /\ last_op = [name |-> "Learner", args |-> [none |-> TRUE]]
    /\ ret = "None"
    /\ fit_calls = <<>>

-----------------------------------------------------------------------------
\* GradientClipping inside the training loop of the host (basic_train).

\* nn.utils.clip_grad_norm_(parameters, max_norm): scales the gradients so
\* that their total norm is at most max_norm; returns the norm they have then.
clip_grad_norm_(total_norm, max_norm) ==
    IF total_norm > max_norm THEN max_norm ELSE total_norm

\* Line 92 with the test of self.clip lost: the gradients are clipped always.
should_clip_always(cl) == TRUE

\* Line 92: `if self.clip:`, the truth value of a number.
should_clip(cl) == cl # 0

\* GradientClipping.__init__(learn, clip)
GradientClipping_init(cl) ==
    /\ pc = "new"
    /\ clip' = cl
    /\ pc' = "ready"
    /\ UNCHANGED <<grad_norm, raw_norm, applied, events, batch>>
    /\ UNCHANGED <<learner_vars, interp_vars>>

\* loss.backward() of the host loop: leaves gradients of some norm g.
loss_backward(g) ==
    /\ pc = "ready"
    /\ batch < MaxBatches
    /\ grad_norm' = g
    /\ raw_norm' = g
    /\ events' = <<"backward">>
    /\ pc' = "backward_done"
    /\ UNCHANGED <<clip, applied, batch>>
    /\ UNCHANGED <<learner_vars, interp_vars>>

\* GradientClipping.on_backward_end, called by the host's callback handler.
on_backward_end ==
    /\ pc = "backward_done"
    /\ IF should_clip(clip)
       THEN /\ grad_norm' = clip_grad_norm_(grad_norm, clip)
            /\ events' = events \o <<"on_backward_end", "clip_grad_norm_">>
       ELSE /\ grad_norm' = grad_norm
            /\ events' = Append(events, "on_backward_end")
    /\ pc' = "hook_done"
    /\ UNCHANGED <<clip, raw_norm, applied, batch>>
    /\ UNCHANGED <<learner_vars, interp_vars>>

\* opt.step() of the host loop: consumes the gradients as they are now.
opt_step ==
    /\ pc = "hook_done"
    /\ applied' = grad_norm
    /\ events' = Append(events, "step")
    /\ pc' = "stepped"
    /\ UNCHANGED <<clip, grad_norm, raw_norm, batch>>
    /\ UNCHANGED <<learner_vars, interp_vars>>

\* opt.zero_grad() of the host loop, and on to the next batch.
zero_grad ==
    /\ pc = "stepped"
    /\ grad_norm' = 0
    /\ batch' = batch + 1
    /\ pc' = "ready"
    /\ UNCHANGED <<clip, raw_norm, applied, events>>
    /\ UNCHANGED <<learner_vars, interp_vars>>

\* Line 86: the default of the constructor's clip.
DefaultClip == 0

TrainInit ==
    /\ pc = "new"
    /\ clip = DefaultClip
    /\ grad_norm = 0
    /\ raw_norm = 0
    /\ applied = 0
    /\ events = <<>>
    /\ batch = 0

-----------------------------------------------------------------------------
\* ClassificationInterpretation.

\* probs has one column per output of the model; data.c may be smaller, and
\* then a predicted class may lie outside 0..c-1.  Labels are classes of data.
NCols == MaxC
ProbValues == {0, 1}
MinVals == {-1, 0, 1}

\* max of a row of probs
RowMax(row) == CHOOSE m \in Range(row) : \A j \in DOMAIN row : row[j] <= m

\* The indices argmax may return for a row: those of its largest value.
\* Which one it returns when the largest value occurs twice is not specified.
argmax(row) == {j \in DOMAIN row : row[j] = RowMax(row)}

\* ClassificationInterpretation.__init__(data, probs, y_true, losses)
ClassificationInterpretation_init ==
    /\ ipc = "new"
    /\ pred_class' \in {p \in Tensor(0..(NCols - 1), Cardinality(DOMAIN probs)) :
                          \A k \in DOMAIN probs : p[k] \in argmax(probs[k])}
    /\ ipc' = "built"
    /\ UNCHANGED <<c, probs, y_true, cm_out, min_val, mc_out>>
    /\ UNCHANGED <<learner_vars, train_vars>>

\* torch.zeros(c, c)
zeros(n) == [i \in 0..(n - 1) |-> [j \in 0..(n - 1) |-> 0]]

\* Lines 118-119 for sample k: entry [a][j] is the sum, over the one sample
\* of the slice, of (pred_class[k] == x[j]) & (y_true[k] == x[a]).
cm_slice(n, pred, y, k) ==
    [a \in 0..(n - 1) |-> [j \in 0..(n - 1) |->
        IF pred[k] = j /\ y[k] = a THEN 1 ELSE 0]]

\* torch.add(cm, cm_slice, out=cm)
cm_add(n, cm, sl) == [a \in 0..(n - 1) |-> [j \in 0..(n - 1) |-> cm[a][j] + sl[a][j]]]

\* The loop of lines 117-120 from sample k on.
RECURSIVE cm_loop(_, _, _, _, _)
cm_loop(n, pred, y, k, cm) ==
    IF k >= Cardinality(DOMAIN y) THEN cm
    ELSE cm_loop(n, pred, y, k + 1, cm_add(n, cm, cm_slice(n, pred, y, k)))

\* Lines 118-119 with the two broadcasts exchanged: rows are predictions.
confusion_matrix_transposed(n, pred, y) == cm_loop(n, y, pred, 0, zeros(n))

\* Lines 117-120 with the loop stopping one sample early.
confusion_matrix_short(n, pred, y) ==
    LET m == Cardinality(DOMAIN y)
    IN  IF m = 0 THEN zeros(n)
        ELSE cm_loop(n, [k \in 0..(m - 2) |-> pred[k]], [k \in 0..(m - 2) |-> y[k]],
                     0, zeros(n))

\* ClassificationInterpretation.confusion_matrix, as a function of the fields.
confusion_matrix_of(n, pred, y) == cm_loop(n, pred, y, 0, zeros(n))

\* ClassificationInterpretation.confusion_matrix().  Neither this method nor
\* most_confused writes a field of the object, so a call made after another
\* call does what it does on the fresh object: one call per object is modelled.
confusion_matrix ==
    /\ ipc = "built"
    /\ cm_out' = confusion_matrix_of(c, pred_class, y_true)
    /\ ipc' = "cm"
    /\ UNCHANGED <<c, probs, y_true, pred_class, min_val, mc_out>>
    /\ UNCHANGED <<learner_vars, train_vars>>

\* np.fill_diagonal(cm, 0)
fill_diagonal(n, cm) ==
    [i \in 0..(n - 1) |-> [j \in 0..(n - 1) |-> IF i = j THEN 0 ELSE cm[i][j]]]

\* Lines 148-149: the triples of the entries above mv, in the row-major order
\* np.where yields them, from flat index t on.
RECURSIVE where_above(_, _, _, _)
where_above(n, cm, mv, t) ==
    IF t >= n * n THEN <<>>
    ELSE LET i == t \div n
             j == t % n
             rest == where_above(n, cm, mv, t + 1)
         IN  IF cm[i][j] > mv THEN <<(<<i, j, cm[i][j]>>)>> \o rest ELSE rest

\* One step of sorted(..., key=itemgetter(2), reverse=True): x goes behind
\* every element whose count is at least its own (the sort is stable).
RECURSIVE insert_desc(_, _)
insert_desc(sorted, x) ==
    IF sorted = <<>> THEN <<x>>
    ELSE IF sorted[1][3] >= x[3] THEN <<sorted[1]>> \o insert_desc(Tail(sorted), x)
         ELSE <<x>> \o sorted

\* sorted(res, key=itemgetter(2), reverse=True)
RECURSIVE sorted_desc(_, _)
sorted_desc(res, k) ==
    IF k = 0 THEN <<>> ELSE insert_desc(sorted_desc(res, k - 1), res[k])

\* ClassificationInterpretation.most_confused, as a function of the fields.
most_confused_of(n, pred, y, mv) ==
    LET cm == fill_diagonal(n, confusion_matrix_of(n, pred, y))
        res == where_above(n, cm, mv, 0)
    IN  sorted_desc(res, Len(res))

\* ClassificationInterpretation.most_confused(min_val)
most_confused(mv) ==
    /\ ipc = "built"
    /\ min_val' = mv
    /\ mc_out' = most_confused_of(c, pred_class, y_true, mv)
    /\ ipc' = "mc"
    /\ UNCHANGED <<c, probs, y_true, pred_class, cm_out>>
    /\ UNCHANGED <<learner_vars, train_vars>>

InterpInit ==
    /\ ipc = "new"
    /\ c \in 1..MaxC
    /\ \E n \in 0..MaxN :
          /\ probs \in Tensor(Tensor(ProbValues, NCols), n)
          /\ y_true \in Tensor(0..(c - 1), n)
    /\ pred_class = <<>>
    /\ cm_out = <<>>
    /\ min_val = 0
    /\ mc_out = <<>>

-----------------------------------------------------------------------------
\* The specifications: one per part of the module, the other parts at rest.

LearnerNext ==
    \/ \E ls \in LossScales, fm \in BOOLEAN : to_fp16(ls, fm)
    \/ to_fp32
    \/ \E a \in Alphas, sx \in BOOLEAN, sy \in BOOLEAN : mixup(a, sx, sy)
    \/ \E cl \in ClipValues : clip_grad(cl)

FitNext ==
    \/ \E n \in 1..MaxEpochs, lr \in LrInputs, wd \in Wds, cbs \in CallbackArgs :
          fit_one_cycle(n, lr, Moms, DivFactor, PctStart, wd, cbs)
    \/ \E s \in LrInputs, e \in LrInputs, num_it \in 0..MaxNumIt, sd \in BOOLEAN :
          lr_find(s, e, num_it, sd)

TrainNext ==
    \/ \E cl \in ClipValues : GradientClipping_init(cl)
    \/ \E g \in 0..MaxNorm : loss_backward(g)
    \/ on_backward_end
    \/ opt_step
    \/ zero_grad

InterpNext ==
    \/ ClassificationInterpretation_init
    \/ confusion_matrix
    \/ \E mv \in MinVals : most_confused(mv)

\* A part at rest: its state right after construction, on the smallest input.
LearnerIdle ==
    /\ callbacks = <<>>
    /\ callback_fns = <<>>
    /\ loss_func = <<"crit">>
    /\ model_dtype = "float"
    /\ mp_cb = 0
    /\ dl_tfms = [train |-> Loader(<<>>), valid |-> NoLoader, test |-> NoLoader]
    /\ train_len = 1
    /\ n_calls = 0
    /\ last_op = [name |-> "Learner", args |-> [none |-> TRUE]]
    /\ ret = "None"
    /\ fit_calls = <<>>

InterpIdle ==
    /\ ipc = "new"
    /\ c = 1
    /\ probs = <<>>
    /\ y_true = <<>>
    /\ pred_class = <<>>
    /\ cm_out = <<>>
    /\ min_val = 0
    /\ mc_out = <<>>

InitLearner == LearnerInit /\ TrainInit /\ InterpIdle
InitFit == FitInit /\ TrainInit /\ InterpIdle
InitTrain == LearnerIdle /\ TrainInit /\ InterpIdle
InitInterp == LearnerIdle /\ TrainInit /\ InterpInit

SpecLearner == InitLearner /\ [][LearnerNext]_vars
SpecFit == InitFit /\ [][FitNext]_vars
SpecTrain == InitTrain /\ [][TrainNext]_vars
SpecInterp == InitInterp /\ [][InterpNext]_vars

-----------------------------------------------------------------------------
\* What the claims are stated with.

\* The number of samples whose true class is i and whose predicted class is j.
Tally(i, j) == Cardinality({k \in DOMAIN y_true : y_true[k] = i /\ pred_class[k] = j})

\* f[0] + ... + f[n-1]
RECURSIVE SumTo(_, _)
SumTo(f, n) == IF n = 0 THEN 0 ELSE f[n - 1] + SumTo(f, n - 1)

RowSum(cm, i) == SumTo(cm[i], c)
ColSum(cm, j) == SumTo([i \in 0..(c - 1) |-> cm[i][j]], c)
Total(cm) == SumTo([i \in 0..(c - 1) |-> RowSum(cm, i)], c)

Classes == 0..(c - 1)
Samples == DOMAIN y_true

Min(a, b) == IF a < b THEN a ELSE b

\* C1: confusion_matrix returns a c-by-c matrix whose entry [i][j] is the
\* number of samples with true class i and predicted class j, the predicted
\* class of a sample being an index of the largest value of its row of probs.
C1_ConfusionMatrixTallies ==
    ipc = "cm" =>
        /\ DOMAIN cm_out = Classes
        /\ \A i \in Classes :
              /\ DOMAIN cm_out[i] = Classes
              /\ \A j \in Classes : cm_out[i][j] = Tally(i, j)
        /\ \A k \in Samples : \A j \in DOMAIN probs[k] :
              probs[k][j] <= probs[k][pred_class[k]]

\* C1's case: two classes, one sample of class 0 predicted 1 and one sample
\* of class 1 predicted 1 (so the matrix is not symmetric).
C1_Witness ==
    /\ ipc = "cm"
    /\ c = 2
    /\ cm_out[0][1] = 1
    /\ cm_out[1][1] = 1
    /\ cm_out[1][0] = 0

\* C2: when every true label and every predicted class lies in 0..c-1, row i
\* of the confusion matrix sums to the number of samples of true class i,
\* column j to the number of samples predicted j, and all entries to the
\* number of samples.
C2_RowColumnSums ==
    (/\ ipc = "cm"
     /\ \A k \in Samples : y_true[k] \in Classes /\ pred_class[k] \in Classes)
    => /\ \A i \in Classes :
             RowSum(cm_out, i) = Cardinality({k \in Samples : y_true[k] = i})
       /\ \A j \in Classes :
             ColSum(cm_out, j) = Cardinality({k \in Samples : pred_class[k] = j})
       /\ Total(cm_out) = Cardinality(Samples)

\* C2's case: two samples, labels and predictions in range, and the class
\* counts of the labels differ from those of the predictions.
C2_Witness ==
    /\ ipc = "cm"
    /\ c = 2
    /\ Cardinality(Samples) = 2
    /\ \A k \in Samples : y_true[k] = 0 /\ pred_class[k] = 1

\* The triples most_confused is said to return: the off-diagonal entries
\* of the confusion matrix that are strictly greater than min_val.
ConfusedTriples ==
    {<<p[1], p[2], Tally(p[1], p[2])>> :
        p \in {q \in Classes \X Classes : q[1] # q[2] /\ Tally(q[1], q[2]) > min_val}}

\* C3: most_confused(min_val) returns, in descending order of count, exactly
\* the triples (i, j, cm[i][j]) with i # j and cm[i][j] > min_val, each once,
\* and never a diagonal pair.
C3_MostConfusedOffDiagonal ==
    ipc = "mc" =>
        /\ \A a, b \in 1..Len(mc_out) : a < b => mc_out[a][3] >= mc_out[b][3]
        /\ Range(mc_out) = ConfusedTriples
        /\ Len(mc_out) = Cardinality(ConfusedTriples)
        /\ \A a \in 1..Len(mc_out) : mc_out[a][1] # mc_out[a][2]

\* The statement of C3 holds of every call whose min_val is not negative.
MostConfusedOffDiagonalFromZero ==
    (ipc = "mc" /\ min_val >= 0) =>
        /\ \A a, b \in 1..Len(mc_out) : a < b => mc_out[a][3] >= mc_out[b][3]
        /\ Range(mc_out) = ConfusedTriples
        /\ Len(mc_out) = Cardinality(ConfusedTriples)

\* C4: after to_fp32 returns, learn.callbacks holds no MixedPrecision callback.
C4_NoMixedPrecisionAfterToFp32 ==
    last_op.name = "to_fp32" =>
        \A i \in 1..Len(callbacks) : ~IsMixedPrecision(callbacks[i])

\* to_fp32 does remove every MixedPrecision callback when none of them
\* directly follows another in the list.
NoMixedPrecisionLeftUnlessAdjacent ==
    [][(/\ last_op'.name = "to_fp32"
        /\ n_calls' = n_calls + 1
        /\ \A i \in 1..(Len(callbacks) - 1) :
              ~(IsMixedPrecision(callbacks[i]) /\ IsMixedPrecision(callbacks[i + 1])))
       => \A i \in 1..Len(callbacks') : ~IsMixedPrecision(callbacks'[i])]_vars

\* C5: in every batch the on_backward_end hook runs after the backward pass
\* and before the optimizer step; it clips the gradient norm to clip exactly
\* when clip is not zero, and with clip = 0 the optimizer consumes the
\* gradients the backward pass left.
C5_ClipBeforeStep ==
    pc = "stepped" =>
        /\ events = IF clip # 0
                    THEN <<"backward", "on_backward_end", "clip_grad_norm_", "step">>
                    ELSE <<"backward", "on_backward_end", "step">>
        /\ applied = IF clip # 0 THEN Min(raw_norm, clip) ELSE raw_norm

\* C5's case: the second batch, a gradient of norm 3 clipped to 1 and stepped.
C5_Witness ==
    /\ pc = "stepped"
    /\ batch = 1
    /\ clip = 1
    /\ raw_norm = 3
    /\ applied = 1

\* C6: lr_find calls learn.fit exactly once, with the smallest number of
\* epochs a whose a*n batches cover num_it iterations, and with the LRFinder
\* callback as the only callback.
C6_LrFindEpochs ==
    last_op.name = "lr_find" =>
        /\ Len(fit_calls) = 1
        /\ LET a == fit_calls[1].epochs
               n == train_len
               num_it == last_op.args.num_it
           IN  a * n >= num_it /\ (a - 1) * n < num_it
        /\ Len(fit_calls[1].callbacks) = 1
        /\ fit_calls[1].callbacks[1].kind = "LRFinder"

\* C6's case: 7 iterations over epochs of 3 batches need 3 epochs.
C6_Witness ==
    /\ last_op.name = "lr_find"
    /\ last_op.args.num_it = 7
    /\ train_len = 3
    /\ fit_calls[1].epochs = 3

\* C7: fit_one_cycle calls learn.fit exactly once, for cyc_len epochs, with
\* the learning rate lr_range(max_lr) and with the caller's callbacks in their
\* order followed by one new OneCycleScheduler as the last element.
C7_FitOneCycleCallbacks ==
    last_op.name = "fit_one_cycle" =>
        /\ Len(fit_calls) = 1
        /\ fit_calls[1].epochs = last_op.args.cyc_len
        /\ fit_calls[1].lr = lr_range(last_op.args.max_lr)
        /\ LET given == IF last_op.args.callbacks.tag = "None"
                        THEN <<>> ELSE last_op.args.callbacks.v
               passed == fit_calls[1].callbacks
           IN  /\ Len(passed) = Len(given) + 1
               /\ \A i \in 1..Len(given) : passed[i] = given[i]
               /\ passed[Len(passed)].kind = "OneCycleScheduler"
               /\ passed[Len(passed)].id = n_calls
               /\ passed[Len(passed)].kw.lr_max = lr_range(last_op.args.max_lr)

\* C7's case: the caller passes a list of two callbacks, the first of which
\* is itself a scheduler.
C7_Witness ==
    /\ last_op.name = "fit_one_cycle"
    /\ last_op.args.callbacks.tag = "list"
    /\ Len(last_op.args.callbacks.v) = 2
    /\ last_op.args.callbacks.v[1].kind = "OneCycleScheduler"
    /\ last_op.args.callbacks.v[2].kind = "ShowGraph"
    /\ Len(fit_calls[1].callbacks) = 3

\* C8: a call of mixup appends exactly one MixUpCallback factory to
\* learn.callback_fns and returns the learner; it wraps learn.loss_func in a
\* MixUpLoss when stack_y holds and leaves it alone otherwise; learn.callbacks,
\* the model and the rest of the learner are as they were.
C8_MixupFrame ==
    [][(last_op'.name = "mixup" /\ n_calls' = n_calls + 1) =>
        /\ callback_fns' = Append(callback_fns,
                                  [cls |-> "MixUpCallback", kw |-> last_op'.args])
        /\ loss_func' = IF last_op'.args.stack_y
                        THEN <<"MixUpLoss">> \o loss_func
                        ELSE loss_func
        /\ ret' = "learn"
        /\ UNCHANGED <<callbacks, model_dtype, mp_cb, dl_tfms, train_len>>]_vars

\* C8's case: a mixup call with stack_y = False on a learner in half precision
\* whose loss an earlier mixup call has wrapped.
C8_Witness ==
    /\ last_op.name = "mixup"
    /\ ~last_op.args.stack_y
    /\ loss_func = <<"MixUpLoss", "crit">>
    /\ Len(callback_fns) = 2
    /\ model_dtype = "half"
    /\ Len(callbacks) >= 1

====
